---- MODULE Spec2Model ----
(***************************************************************************)
(* A model of the particle-swarm engine of pyswarms:                       *)
(*   - the swarm operators of pyswarms/backend/operators.py                *)
(*     (compute_pbest, compute_position, compute_objective_function);      *)
(*   - the optimizer base class of pyswarms/base/base.py                   *)
(*     (construction, _populate_history, reset).                           *)
(* numpy arrays are functions over 1..n; a matrix is a function of rows.   *)
(* A call is evaluated over a heap of named arrays (the fields of the      *)
(* swarm it is given plus the locals it creates), so that writing into an  *)
(* array that the swarm still refers to is visible after the call.         *)
(***************************************************************************)
EXTENDS Integers, Sequences, FiniteSets, TLC

VARIABLES
    pc,         \* position of the driving loop of the specification at hand
    swarm,      \* Swarm State: position, velocity, current_cost, pbest_*, best_*
    pre,        \* the swarm as it was when the last operator call was made
    ret,        \* what the last operator call returned
    args,       \* the arguments (bounds, handler) of the last compute_position call
    bh_calls,   \* how often the last compute_position call invoked the handler
    attained,   \* per particle: the least cost evaluated so far, and where first
    iter,       \* iterations of optimize() completed
    ev,         \* objective evaluator: its inputs, blocks, pending results, output
    opt,        \* optimizer instance: configuration, histories, run state
    lists,      \* Python list objects by identity: the entries each one holds
    attrs       \* per optimizer object: whether constructed, and its __dict__

vars == <<pc, swarm, pre, ret, args, bh_calls, attained, iter, ev, opt, lists, attrs>>

----------------------------------------------------------------------------
(* Bounds of the model *)

\* number of particles N of the swarms of the operator specification
NParticles == 2
\* iterations of the caller's loop around the operators
MaxIters == 2

\* largest number of particles handed to the objective evaluator
MaxRows == 4
\* largest number of worker processes of a pool
MaxWorkers == 3

\* number of dimensions D (swarm.dimensions)
Dimensions == 1
\* coordinates a position may take: a call that would leave them is not made
Coords == 0 .. 1
\* velocities the (external) velocity updater may produce
Velocities == {-1, 1}
\* costs the (external) objective may return
Costs == 0 .. 2

None == [kind |-> "None"]
Particles == 1 .. NParticles
Dims == 1 .. Dimensions

----------------------------------------------------------------------------
(* numpy *)

\* numpy.where(cond, a, b) on vectors
np_where1(cond, a, b) ==
    [i \in DOMAIN cond |-> IF cond[i] THEN a[i] ELSE b[i]]

\* numpy.where(cond, a, b) on matrices
np_where2(cond, a, b) ==
    [i \in DOMAIN cond |-> [d \in DOMAIN cond[i] |-> IF cond[i][d] THEN a[i][d] ELSE b[i][d]]]

\* numpy.repeat(mask[:, np.newaxis], dimensions, axis=1)
np_repeat(mask, dimensions) ==
    [i \in DOMAIN mask |-> [d \in 1 .. dimensions |-> mask[i]]]

\* a + b on matrices: a new array
np_add(a, b) ==
    [i \in DOMAIN a |-> [d \in DOMAIN a[i] |-> a[i][d] + b[i][d]]]

\* ~mask on vectors and on matrices
np_not1(mask) == [i \in DOMAIN mask |-> ~mask[i]]
np_not2(mask) == [i \in DOMAIN mask |-> [d \in DOMAIN mask[i] |-> ~mask[i][d]]]

----------------------------------------------------------------------------
(* The heap of a call *)

SwarmFields ==
    {"position", "velocity", "current_cost", "pbest_pos", "pbest_cost",
     "best_pos", "best_cost"}

\* writing array v under name n
Put(heap, n, v) == [m \in DOMAIN heap \cup {n} |-> IF m = n THEN v ELSE heap[m]]

\* the arrays a call can reach: the swarm's fields (its locals are added by name),
\* and the number of boundary-handler invocations made during the call
Load(sw) == Put(sw, "bh_calls", 0)

\* the swarm as the caller sees it after the call
Store(heap) == [f \in SwarmFields |-> heap[f]]

----------------------------------------------------------------------------
(* pyswarms.backend.handlers.BoundaryHandler: bh(position, bounds) *)

\* "nearest": clip each out-of-bounds coordinate to the nearest bound
nearest(x, lo, hi) == IF x < lo THEN lo ELSE IF x > hi THEN hi ELSE x

\* "periodic": wrap an out-of-bounds coordinate modulo the bound range
periodic(x, lo, hi) == IF lo <= x /\ x <= hi THEN x ELSE lo + ((x - lo) % (hi - lo))

\* the corrected position matrix of a strategy
enforce(strategy, position, bounds) ==
    [i \in DOMAIN position |-> [d \in DOMAIN position[i] |->
        IF strategy = "nearest"
        THEN nearest(position[i][d], bounds.low[d], bounds.high[d])
        ELSE periodic(position[i][d], bounds.low[d], bounds.high[d])]]

\* One call bh(heap[name], bounds). A handler may build a new array or correct the
\* array it was handed in place (bh.inplace); it returns the name of the result.
BoundaryHandler(heap, name, bounds, bh) ==
    LET corrected == enforce(bh.strategy, heap[name], bounds)
        called == Put(heap, "bh_calls", heap["bh_calls"] + 1)
    IN  IF bh.inplace
        THEN [heap |-> Put(called, name, corrected), ret |-> name]
        ELSE [heap |-> Put(called, "bh_result", corrected), ret |-> "bh_result"]

Handlers ==
    {[strategy |-> "nearest", inplace |-> FALSE],
     [strategy |-> "nearest", inplace |-> TRUE],
     [strategy |-> "periodic", inplace |-> TRUE]}

\* bounds: None, or (low, high) with one entry per dimension
BoundsChoices ==
    {None,
     [low |-> [d \in Dims |-> 0], high |-> [d \in Dims |-> 1]],
     [low |-> [d \in Dims |-> 0], high |-> [d \in Dims |-> d]]}

----------------------------------------------------------------------------
(* pyswarms/backend/operators.py *)

\* compute_pbest comparing with <= : a tie replaces the personal best
compute_pbest_le(heap) ==
    LET mask_cost == [i \in DOMAIN heap["current_cost"] |->
                        heap["current_cost"][i] <= heap["pbest_cost"][i]]
        mask_pos == np_repeat(mask_cost, Dimensions)
    IN  [heap |-> Put(Put(heap, "new_pbest_pos",
                          np_where2(np_not2(mask_pos), heap["pbest_pos"], heap["position"])),
                      "new_pbest_cost",
                      np_where1(np_not1(mask_cost), heap["pbest_cost"], heap["current_cost"])),
         ret |-> <<"new_pbest_pos", "new_pbest_cost">>]

\* compute_pbest with the arguments of numpy.where swapped for the costs: the
\* worse of the two costs is kept
compute_pbest_swapped(heap) ==
    LET mask_cost == [i \in DOMAIN heap["current_cost"] |->
                        heap["current_cost"][i] < heap["pbest_cost"][i]]
        mask_pos == np_repeat(mask_cost, Dimensions)
    IN  [heap |-> Put(Put(heap, "new_pbest_pos",
                          np_where2(np_not2(mask_pos), heap["pbest_pos"], heap["position"])),
                      "new_pbest_cost",
                      np_where1(mask_cost, heap["pbest_cost"], heap["current_cost"])),
         ret |-> <<"new_pbest_pos", "new_pbest_cost">>]

\* compute_pbest(swarm) over the heap of the call: [heap, ret], ret the names of
\* the two arrays returned
compute_pbest(heap) ==
    LET dimensions == Dimensions
        mask_cost == [i \in DOMAIN heap["current_cost"] |->
                        heap["current_cost"][i] < heap["pbest_cost"][i]]
        mask_pos == np_repeat(mask_cost, dimensions)
        new_pbest_pos == np_where2(np_not2(mask_pos), heap["pbest_pos"], heap["position"])
        new_pbest_cost == np_where1(np_not1(mask_cost), heap["pbest_cost"], heap["current_cost"])
    IN  [heap |-> Put(Put(heap, "new_pbest_pos", new_pbest_pos),
                      "new_pbest_cost", new_pbest_cost),
         ret |-> <<"new_pbest_pos", "new_pbest_cost">>]

\* compute_position that never hands the tentative position to the handler
compute_position_unhandled(heap, bounds, bh) ==
    [heap |-> Put(heap, "temp_position", np_add(heap["position"], heap["velocity"])),
     ret |-> "temp_position"]

\* compute_position without the copy, adding in place (temp_position = swarm.position;
\* temp_position += swarm.velocity): the tentative position is the swarm's own array
compute_position_inplace(heap, bounds, bh) ==
    LET added == Put(heap, "position", np_add(heap["position"], heap["velocity"]))
    IN  IF bounds # None
        THEN BoundaryHandler(added, "position", bounds, bh)
        ELSE [heap |-> added, ret |-> "position"]

\* compute_position(swarm, bounds, bh) over the heap of the call: [heap, ret],
\* ret the name of the array returned
compute_position(heap, bounds, bh) ==
    LET copied == Put(heap, "copy", heap["position"])
        added == Put(copied, "temp_position", np_add(copied["copy"], copied["velocity"]))
    IN  IF bounds # None
        THEN BoundaryHandler(added, "temp_position", bounds, bh)
        ELSE [heap |-> added, ret |-> "temp_position"]

----------------------------------------------------------------------------
(* The caller's loop around the operators (operators.py, the docstrings'       *)
(* "Inside the for-loop"): move, evaluate, update the personal bests.      *)

Min(S) == CHOOSE m \in S : \A x \in S : m <= x

\* index of the first minimum of a vector (numpy.argmin)
np_argmin(v) == CHOOSE i \in DOMAIN v : /\ \A j \in DOMAIN v : v[i] <= v[j]
                                        /\ \A j \in DOMAIN v : j < i => v[j] > v[i]

\* the global-best topology: the least personal-best cost and its row of pbest_pos
\* (the first such row, as numpy.argmin finds it)
compute_gbest(sw) ==
    [best_pos |-> sw.pbest_pos[np_argmin(sw.pbest_cost)],
     best_cost |-> sw.pbest_cost[np_argmin(sw.pbest_cost)]]

\* a swarm right after its initial evaluation: the personal bests are seeded
\* with the initial positions and costs, the best with their minimum
SeededSwarm(position, velocity, cost) ==
    [position |-> position, velocity |-> velocity, current_cost |-> cost,
     pbest_pos |-> position, pbest_cost |-> cost,
     best_pos |-> position[np_argmin(cost)], best_cost |-> cost[np_argmin(cost)]]

NoCall == [kind |-> "no call"]
Idle == [kind |-> "unused"]

SwarmInit ==
    /\ pc = "velocity"
    /\ swarm \in {SeededSwarm(p, [i \in Particles |-> [d \in Dims |-> 0]], c) :
                     p \in [Particles -> [Dims -> Coords]], c \in [Particles -> Costs]}
    /\ pre = NoCall /\ ret = NoCall /\ args = NoCall /\ bh_calls = 0
    /\ attained = [i \in Particles |->
                      [cost |-> swarm.current_cost[i], pos |-> swarm.position[i]]]
    /\ iter = 0
    /\ ev = Idle /\ opt = Idle /\ lists = Idle /\ attrs = Idle

\* the velocity updater (external): any velocity matrix
UpdateVelocity ==
    /\ pc = "velocity"
    /\ \E v \in [Particles -> [Dims -> Velocities]] :
          swarm' = [swarm EXCEPT !.velocity = v]
    /\ pc' = "position"
    /\ UNCHANGED <<lists, attrs, pre, ret, args, bh_calls, attained, iter, ev, opt>>

\* the call compute_position(my_swarm, bounds, my_bh), its result not yet assigned
CallComputePosition ==
    /\ pc = "position"
    /\ \E bounds \in BoundsChoices, bh \in Handlers :
          LET r == compute_position(Load(swarm), bounds, bh)
          IN  /\ \A i \in Particles, d \in Dims : r.heap[r.ret][i][d] \in Coords
              /\ pre' = swarm
              /\ swarm' = Store(r.heap)
              /\ ret' = r.heap[r.ret]
              /\ bh_calls' = r.heap["bh_calls"]
              /\ args' = [bounds |-> bounds, bh |-> bh]
    /\ pc' = "assign_position"
    /\ UNCHANGED <<lists, attrs, attained, iter, ev, opt>>

\* my_swarm.position = <the result>
AssignPosition ==
    /\ pc = "assign_position"
    /\ swarm' = [swarm EXCEPT !.position = ret]
    /\ pre' = NoCall /\ ret' = NoCall /\ args' = NoCall /\ bh_calls' = 0
    /\ pc' = "evaluate"
    /\ UNCHANGED <<lists, attrs, attained, iter, ev, opt>>

\* my_swarm.current_cost = <the objective at the current positions>: any costs
Evaluate ==
    /\ pc = "evaluate"
    /\ \E c \in [Particles -> Costs] :
          /\ swarm' = [swarm EXCEPT !.current_cost = c]
          /\ attained' = [i \in Particles |->
                             IF c[i] < attained[i].cost
                             THEN [cost |-> c[i], pos |-> swarm.position[i]]
                             ELSE attained[i]]
    /\ pc' = "pbest"
    /\ UNCHANGED <<lists, attrs, pre, ret, args, bh_calls, iter, ev, opt>>

\* the call compute_pbest(my_swarm), its result not yet assigned
CallComputePbest ==
    /\ pc = "pbest"
    /\ LET r == compute_pbest(Load(swarm))
       IN  /\ pre' = swarm
           /\ swarm' = Store(r.heap)
           /\ ret' = <<r.heap[r.ret[1]], r.heap[r.ret[2]]>>
    /\ pc' = "assign_pbest"
    /\ UNCHANGED <<lists, attrs, args, bh_calls, attained, iter, ev, opt>>

\* my_swarm.pbest_pos, my_swarm.pbest_cost = <the result>
AssignPbest ==
    /\ pc = "assign_pbest"
    /\ swarm' = [swarm EXCEPT !.pbest_pos = ret[1], !.pbest_cost = ret[2]]
    /\ pre' = NoCall /\ ret' = NoCall
    /\ pc' = "gbest"
    /\ UNCHANGED <<lists, attrs, args, bh_calls, attained, iter, ev, opt>>

\* my_swarm.best_pos, my_swarm.best_cost = <the topology's global best>
AssignGbest ==
    /\ pc = "gbest"
    /\ swarm' = [swarm EXCEPT !.best_pos = compute_gbest(swarm).best_pos,
                              !.best_cost = compute_gbest(swarm).best_cost]
    /\ pc' = "velocity"
    /\ UNCHANGED <<lists, attrs, pre, ret, args, bh_calls, attained, iter, ev, opt>>

SwarmNext ==
    \/ UpdateVelocity
    \/ CallComputePosition
    \/ AssignPosition
    \/ Evaluate
    \/ CallComputePbest
    \/ AssignPbest
    \/ AssignGbest

SpecSwarm == SwarmInit /\ [][SwarmNext]_vars

----------------------------------------------------------------------------
(* compute_objective_function (operators.py) with its collaborators: the       *)
(* objective function, numpy.array_split, Pool.map, numpy.concatenate.         *)

\* coordinates of the positions handed to the evaluator: enough for the rows of a
\* matrix to differ pairwise
EvalCoords == 0 .. MaxRows - 1

\* the outcome of a call: not yet there, an error raised, or a value returned
Pending == [status |-> "pending", value |-> <<>>]
Raised == [status |-> "raised", value |-> <<>>]
Returned(v) == [status |-> "returned", value |-> v]

\* sphere(x) of one row: the sum of its squares
RECURSIVE SumSquares(_, _)
SumSquares(row, d) == IF d = 0 THEN 0 ELSE row[d] * row[d] + SumSquares(row, d - 1)
sphere(row) == SumSquares(row, Len(row))

\* objective functions: "sphere", and "checked_sphere", which validates its input
\* range and raises when a coordinate lies outside [0, 1]
Objectives == {"sphere", "checked_sphere"}

\* does objective_func raise on this matrix
Raises(objective, matrix) ==
    /\ objective = "checked_sphere"
    /\ \E i \in DOMAIN matrix : \E d \in DOMAIN matrix[i] : matrix[i][d] > 1

\* objective_func(matrix): the vector of the rows' costs, or Raised
objective_func(objective, matrix) ==
    IF Raises(objective, matrix)
    THEN Raised
    ELSE Returned([i \in DOMAIN matrix |-> sphere(matrix[i])])

\* numpy.array_split with blocks of ceil(N / sections) rows, the last ones smaller
np_array_split_chunked(ary, sections) ==
    LET size == (Len(ary) + sections - 1) \div sections
        cut(k) == IF k * size < Len(ary) THEN k * size ELSE Len(ary)
    IN  [k \in 1 .. sections |-> SubSeq(ary, cut(k - 1) + 1, cut(k))]

\* numpy.array_split(ary, sections) along axis 0: Neach_section, extras =
\* divmod(Ntotal, sections); the first extras sections have Neach_section + 1
\* rows and the others Neach_section; div_points is the cumulative sum
np_array_split(ary, sections) ==
    LET Ntotal == Len(ary)
        Neach_section == Ntotal \div sections
        extras == Ntotal % sections
        section_sizes == [k \in 1 .. sections |->
                            IF k <= extras THEN Neach_section + 1 ELSE Neach_section]
        div_points[k \in 0 .. sections] ==
            IF k = 0 THEN 0 ELSE div_points[k - 1] + section_sizes[k]
    IN  [k \in 1 .. sections |-> SubSeq(ary, div_points[k - 1] + 1, div_points[k])]

\* numpy.concatenate taking the arrays last to first
RECURSIVE np_concatenate_reversed(_)
np_concatenate_reversed(arrays) ==
    IF Len(arrays) = 0 THEN <<>>
    ELSE arrays[Len(arrays)] \o np_concatenate_reversed(SubSeq(arrays, 1, Len(arrays) - 1))

\* numpy.concatenate(arrays) along axis 0
RECURSIVE np_concatenate(_)
np_concatenate(arrays) ==
    IF Len(arrays) = 0 THEN <<>>
    ELSE arrays[1] \o np_concatenate(SubSeq(arrays, 2, Len(arrays)))

\* compute_objective_function that catches the objective's error and goes on with
\* a cost of zero for every particle
compute_objective_function_caught(position, objective, pool) ==
    IF Raises(objective, position)
    THEN Returned([i \in DOMAIN position |-> 0])
    ELSE objective_func(objective, position)

\* compute_objective_function(swarm, objective_func, pool) as one step: pool is
\* None or a pool of pool.processes workers
compute_objective_function(position, objective, pool) ==
    IF pool = None
    THEN objective_func(objective, position)
    ELSE LET blocks == np_array_split(position, pool.processes)
             results == [k \in DOMAIN blocks |-> objective_func(objective, blocks[k])]
         IN  IF \E k \in DOMAIN results : results[k] = Raised
             THEN Raised
             ELSE Returned(np_concatenate([k \in DOMAIN results |-> results[k].value]))

\* the inputs of one call compute_objective_function(swarm, objective_func, pool):
\* pool is None or the number of processes of the pool
EvalInit ==
    /\ ev \in {[position |-> p, objective |-> f, pool |-> w, phase |-> "call",
                 blocks |-> <<>>, results |-> <<>>, out |-> Pending] :
                 p \in UNION {[1 .. n -> [Dims -> EvalCoords]] : n \in 1 .. MaxRows},
                 f \in Objectives,
                 w \in {None} \cup {[kind |-> "Pool", processes |-> k] : k \in 1 .. MaxWorkers}}
    /\ pc = "evaluate" /\ swarm = Idle /\ pre = NoCall /\ ret = NoCall /\ args = NoCall
    /\ bh_calls = 0 /\ attained = Idle /\ iter = 0 /\ opt = Idle
    /\ lists = Idle /\ attrs = Idle

\* pool is None: return objective_func(swarm.position, **kwargs); an error raised
\* by the objective is not caught
EvalSequential ==
    /\ ev.phase = "call" /\ ev.pool = None
    /\ ev' = [ev EXCEPT !.out = objective_func(ev.objective, ev.position),
                         !.phase = "returned"]
    /\ UNCHANGED <<lists, attrs, pc, swarm, pre, ret, args, bh_calls, attained, iter, opt>>

\* pool.map(partial(objective_func, **kwargs), np.array_split(swarm.position,
\* pool._processes)): the blocks are handed to the pool
EvalDispatch ==
    /\ ev.phase = "call" /\ ev.pool # None
    /\ LET blocks == np_array_split(ev.position, ev.pool.processes)
       IN  ev' = [ev EXCEPT !.blocks = blocks,
                            !.results = [k \in DOMAIN blocks |-> Pending],
                            !.phase = "map"]
    /\ UNCHANGED <<lists, attrs, pc, swarm, pre, ret, args, bh_calls, attained, iter, opt>>

\* a worker evaluates one block; Pool.map stores each result at the index of its
\* block, in whatever order the workers finish
EvalWorker ==
    /\ ev.phase = "map"
    /\ \E k \in DOMAIN ev.blocks :
          /\ ev.results[k] = Pending
          /\ ev' = [ev EXCEPT !.results[k] = objective_func(ev.objective, ev.blocks[k])]
    /\ UNCHANGED <<lists, attrs, pc, swarm, pre, ret, args, bh_calls, attained, iter, opt>>

\* Pool.map returns once every block is evaluated, re-raising a worker's error;
\* return np.concatenate(results)
EvalConcatenate ==
    /\ ev.phase = "map"
    /\ \A k \in DOMAIN ev.results : ev.results[k] # Pending
    /\ ev' = [ev EXCEPT !.out = IF \E k \in DOMAIN ev.results : ev.results[k] = Raised
                                THEN Raised
                                ELSE Returned(np_concatenate(
                                         [k \in DOMAIN ev.results |-> ev.results[k].value])),
                         !.phase = "returned"]
    /\ UNCHANGED <<lists, attrs, pc, swarm, pre, ret, args, bh_calls, attained, iter, opt>>

EvalNext ==
    \/ EvalSequential
    \/ EvalDispatch
    \/ EvalWorker
    \/ EvalConcatenate

SpecEval == EvalInit /\ [][EvalNext]_vars

----------------------------------------------------------------------------
(* BaseSwarmOptimizer (base.py): construction, reset, _populate_history, and   *)
(* a run of optimize() of the global-best optimizer.                           *)

\* numpy.inf
Inf == 100

\* coordinates of the optimizer's swarm, kept there by its bounds
OptCoords == -1 .. 2
\* coordinates of the positions a swarm is initialised at
InitOptCoords == {-1, 1, 2}
OptBounds == [low |-> [d \in Dims |-> -1], high |-> [d \in Dims |-> 2]]
OptHandler == [strategy |-> "nearest", inplace |-> FALSE]

\* values passed as ftol_iter: the number half / 2 of the given type, or a string
FtolIterValues ==
    {[type |-> "int", half |-> 2 * k] : k \in -1 .. 2}
    \cup {[type |-> "float", half |-> h] : h \in {-1, 1, 4}}
    \cup {[type |-> "str", half |-> 0]}
Unset == [type |-> "unset", half |-> 0]

\* ftol_iter > 0 and isinstance(ftol_iter, int), with >= in place of >
ftol_iter_ok_nonneg(ftol_iter) ==
    /\ ftol_iter.type \in {"int", "float"}
    /\ ftol_iter.half >= 0
    /\ ftol_iter.type = "int"

\* ftol_iter > 0 and isinstance(ftol_iter, int): the assertion passes (comparing
\* a string with 0 raises instead)
ftol_iter_ok(ftol_iter) ==
    /\ ftol_iter.type \in {"int", "float"}
    /\ ftol_iter.half > 0
    /\ ftol_iter.type = "int"

HistoryNames ==
    {"cost_history", "mean_pbest_history", "mean_neighbor_history", "pos_history",
     "velocity_history"}

ConfigNames ==
    {"n_particles", "dimensions", "swarm_size", "options", "velocity_clamp",
     "init_pos", "ftol", "ftol_iter"}

\* the object before __init__ has run
NewOptimizer ==
    [status |-> "new", run |-> "idle", last |-> "none",
     n_particles |-> 0, dimensions |-> 0, swarm_size |-> <<0, 0>>, options |-> "unset",
     velocity_clamp |-> "unset", init_pos |-> "unset", ftol |-> "unset", ftol_iter |-> Unset,
     cost_history |-> <<>>, mean_pbest_history |-> <<>>, mean_neighbor_history |-> <<>>,
     pos_history |-> <<>>, velocity_history |-> <<>>]

NoSwarm == [kind |-> "no swarm"]

\* _init_swarm(): a new swarm at the given (random or init_pos) positions, not
\* yet evaluated: the personal bests start at the positions with cost inf, so
\* that the first evaluation of a run seeds them
_init_swarm(position) ==
    [position |-> position,
     velocity |-> [i \in DOMAIN position |-> [d \in Dims |-> 0]],
     current_cost |-> [i \in DOMAIN position |-> Inf],
     pbest_pos |-> position,
     pbest_cost |-> [i \in DOMAIN position |-> Inf],
     best_pos |-> position[1], best_cost |-> Inf]

\* reset() that leaves velocity_history as it is
reset_keeps_velocity_history(o, position) ==
    [self |->
        [o EXCEPT !.cost_history = <<>>, !.mean_pbest_history = <<>>,
              !.mean_neighbor_history = <<>>, !.pos_history = <<>>,
              !.run = "idle", !.last = "reset"],
     swarm |-> _init_swarm(position)]

\* reset(): the five history lists are new empty lists, then _init_swarm() runs;
\* [self, swarm] afterwards
reset(o, position) ==
    [self |->
        [o EXCEPT !.cost_history = <<>>, !.mean_pbest_history = <<>>,
              !.mean_neighbor_history = <<>>, !.pos_history = <<>>,
              !.velocity_history = <<>>,
              !.run = "idle", !.last = "reset"],
     swarm |-> _init_swarm(position)]

\* _populate_history(hist): one entry appended to each of the five lists
_populate_history(o, hist) ==
    [o EXCEPT !.cost_history = Append(o.cost_history, hist.best_cost),
              !.mean_pbest_history = Append(o.mean_pbest_history, hist.mean_pbest_cost),
              !.mean_neighbor_history = Append(o.mean_neighbor_history, hist.mean_neighbor_cost),
              !.pos_history = Append(o.pos_history, hist.position),
              !.velocity_history = Append(o.velocity_history, hist.velocity)]

RECURSIVE Sum(_, _)
Sum(v, n) == IF n = 0 THEN 0 ELSE v[n] + Sum(v, n - 1)

\* numpy.mean(v), as the pair (sum, count)
np_mean(v) == <<Sum(v, Len(v)), Len(v)>>

\* the ToHistory record of an iteration
ToHistory(sw) ==
    [best_cost |-> sw.best_cost, mean_pbest_cost |-> np_mean(sw.pbest_cost),
     mean_neighbor_cost |-> sw.best_cost, position |-> sw.position,
     velocity |-> sw.velocity]

OptInit ==
    /\ opt = NewOptimizer
    /\ swarm = NoSwarm
    /\ args \in {[ftol_iter |-> f, objective |-> "none", iters |-> 0, pool |-> None] :
                    f \in FtolIterValues}
    /\ pc = "init" /\ pre = NoCall /\ ret = Pending /\ bh_calls = 0
    /\ attained = Idle /\ iter = 0 /\ ev = Idle /\ lists = Idle /\ attrs = Idle

\* __init__ up to and including the assertion on ftol_iter, which fails
ConstructFails ==
    /\ opt.status = "new"
    /\ ~ftol_iter_ok(args.ftol_iter)
    /\ opt' = [opt EXCEPT !.status = "failed", !.last = "__init__",
                          !.n_particles = NParticles, !.dimensions = Dimensions,
                          !.velocity_clamp = "None",
                          !.swarm_size = <<NParticles, Dimensions>>,
                          !.options = "options", !.init_pos = "None", !.ftol = "-inf"]
    /\ ret' = Raised
    /\ UNCHANGED <<lists, attrs, pc, swarm, pre, args, bh_calls, attained, iter, ev>>

\* __init__: the attributes are set, the assertion passes, ftol_iter is stored,
\* reset() empties the histories and _init_swarm() makes the swarm
Construct ==
    /\ opt.status = "new"
    /\ ftol_iter_ok(args.ftol_iter)
    /\ \E p \in [Particles -> [Dims -> InitOptCoords]] :
          LET r == reset([opt EXCEPT !.status = "constructed",
                                    !.n_particles = NParticles, !.dimensions = Dimensions,
                                    !.velocity_clamp = "None",
                                    !.swarm_size = <<NParticles, Dimensions>>,
                                    !.options = "options", !.init_pos = "None",
                                    !.ftol = "-inf", !.ftol_iter = args.ftol_iter], p)
          IN  opt' = [r.self EXCEPT !.last = "__init__"] /\ swarm' = r.swarm
    /\ pc' = "idle"
    /\ UNCHANGED <<lists, attrs, pre, ret, args, bh_calls, attained, iter, ev>>

\* opt.reset(), called from the instance between runs
Reset ==
    /\ opt.status = "constructed"
    /\ opt.run \in {"idle", "done", "aborted"}
    /\ \E p \in [Particles -> [Dims -> InitOptCoords]] :
          opt' = reset(opt, p).self /\ swarm' = reset(opt, p).swarm
    /\ pre' = [config |-> [o \in ConfigNames |-> opt[o]],
               records |-> Len(opt.cost_history)]
    /\ pc' = "idle" /\ ret' = Pending /\ iter' = 0
    /\ UNCHANGED <<lists, attrs, args, bh_calls, attained, ev>>

\* optimize(objective_func, iters, n_processes) is called on a fresh swarm
OptStart ==
    /\ opt.status = "constructed" /\ opt.run = "idle"
    /\ \E f \in Objectives, n \in 1 .. MaxIters,
          w \in {None, [kind |-> "Pool", processes |-> 2]} :
          args' = [args EXCEPT !.objective = f, !.iters = n, !.pool = w]
    /\ opt' = [opt EXCEPT !.run = "running", !.last = "optimize"]
    /\ pc' = "evaluate" /\ iter' = 0 /\ pre' = NoCall /\ ret' = Pending
    /\ UNCHANGED <<lists, attrs, swarm, bh_calls, attained, ev>>

\* the objective raises: the error leaves compute_objective_function and optimize()
OptEvaluateRaises ==
    /\ opt.run = "running" /\ pc = "evaluate"
    /\ compute_objective_function(swarm.position, args.objective, args.pool) = Raised
    /\ opt' = [opt EXCEPT !.run = "aborted"]
    /\ ret' = Raised
    /\ pc' = "idle"
    /\ UNCHANGED <<lists, attrs, swarm, pre, args, bh_calls, attained, iter, ev>>

\* swarm.current_cost = compute_objective_function(swarm, objective_func, pool)
OptEvaluate ==
    /\ opt.run = "running" /\ pc = "evaluate"
    /\ LET cost == compute_objective_function(swarm.position, args.objective, args.pool)
       IN  /\ cost # Raised
           /\ swarm' = [swarm EXCEPT !.current_cost = cost.value]
    /\ pc' = "pbest"
    /\ UNCHANGED <<lists, attrs, opt, pre, ret, args, bh_calls, attained, iter, ev>>

\* swarm.pbest_pos, swarm.pbest_cost = compute_pbest(swarm)
OptPbest ==
    /\ opt.run = "running" /\ pc = "pbest"
    /\ LET r == compute_pbest(Load(swarm))
       IN  swarm' = [Store(r.heap) EXCEPT !.pbest_pos = r.heap[r.ret[1]],
                                          !.pbest_cost = r.heap[r.ret[2]]]
    /\ pc' = "gbest"
    /\ UNCHANGED <<lists, attrs, opt, pre, ret, args, bh_calls, attained, iter, ev>>

\* swarm.best_pos, swarm.best_cost = <the global best>
OptGbest ==
    /\ opt.run = "running" /\ pc = "gbest"
    /\ swarm' = [swarm EXCEPT !.best_pos = compute_gbest(swarm).best_pos,
                              !.best_cost = compute_gbest(swarm).best_cost]
    /\ pc' = "history"
    /\ UNCHANGED <<lists, attrs, opt, pre, ret, args, bh_calls, attained, iter, ev>>

\* self._populate_history(hist): the record of this iteration, holding the
\* matrices the iteration evaluated
OptRecord ==
    /\ opt.run = "running" /\ pc = "history"
    /\ opt' = _populate_history(opt, ToHistory(swarm))
    /\ pc' = "velocity"
    /\ UNCHANGED <<lists, attrs, swarm, pre, ret, args, bh_calls, attained, iter, ev>>

\* swarm.velocity = <the velocity updater's result>: any velocity matrix
OptVelocity ==
    /\ opt.run = "running" /\ pc = "velocity"
    /\ \E v \in [Particles -> [Dims -> Velocities]] :
          swarm' = [swarm EXCEPT !.velocity = v]
    /\ pc' = "position"
    /\ UNCHANGED <<lists, attrs, opt, pre, ret, args, bh_calls, attained, iter, ev>>

\* swarm.position = compute_position(swarm, bounds, bh): the iteration is complete
OptPosition ==
    /\ opt.run = "running" /\ pc = "position"
    /\ LET r == compute_position(Load(swarm), OptBounds, OptHandler)
       IN  swarm' = [Store(r.heap) EXCEPT !.position = r.heap[r.ret]]
    /\ iter' = iter + 1
    /\ pc' = IF iter + 1 = args.iters THEN "return" ELSE "evaluate"
    /\ UNCHANGED <<lists, attrs, opt, pre, ret, args, bh_calls, attained, ev>>

\* after iters iterations: return (best_cost, best_pos)
OptReturn ==
    /\ opt.run = "running" /\ pc = "return"
    /\ opt' = [opt EXCEPT !.run = "done"]
    /\ ret' = Returned(<<swarm.best_cost, swarm.best_pos>>)
    /\ pc' = "idle"
    /\ UNCHANGED <<lists, attrs, swarm, pre, args, bh_calls, attained, iter, ev>>

OptNext ==
    \/ ConstructFails
    \/ Construct
    \/ Reset
    \/ OptStart
    \/ OptEvaluateRaises
    \/ OptEvaluate
    \/ OptPbest
    \/ OptGbest
    \/ OptRecord
    \/ OptVelocity
    \/ OptPosition
    \/ OptReturn

SpecOpt == OptInit /\ [][OptNext]_vars

----------------------------------------------------------------------------
(* The history lists as Python objects.  The class statement binds five    *)
(* list objects to the class; reading self.x finds the binding of the      *)
(* instance or, when it has none, that of the class; x.append(v) changes   *)
(* the list object; self.x = [] binds the instance to a new list object.   *)

MaxRecords == 2

InstanceOrder == <<"A", "B">>

Instances == {InstanceOrder[k] : k \in 1 .. Len(InstanceOrder)}

\* the history attributes in the order the code names them, and the field of
\* ToHistory each one receives
HistoryOrder ==
    <<"cost_history", "mean_pbest_history", "mean_neighbor_history", "pos_history",
      "velocity_history">>

HistoryField ==
    [cost_history |-> "best_cost", mean_pbest_history |-> "mean_pbest_cost",
     mean_neighbor_history |-> "mean_neighbor_cost", pos_history |-> "position",
     velocity_history |-> "velocity"]

\* the ToHistory records passed in: each field is marked with the record it is of
HistChoices ==
    {[f \in {HistoryField[n] : n \in HistoryNames} |-> [field |-> f, of |-> k]] :
        k \in {"h1", "h2"}}

\* identities of list objects: the class's five, five per instance, and one
\* more, as a new list exists before the list it replaces is released
ObjIds == 1 .. (Cardinality(HistoryNames) * (1 + Cardinality(Instances)) + 1)

\* the class attributes: one list object per history name
ClassLists ==
    [n \in HistoryNames |-> CHOOSE k \in 1 .. Len(HistoryOrder) : HistoryOrder[k] = n]

EmptyDict == [n \in {} |-> n]

\* self.name: the instance's own attribute, else the class attribute
getattr(h, self, name) ==
    IF name \in DOMAIN h.attrs[self].dict
    THEN h.attrs[self].dict[name]
    ELSE ClassLists[name]

\* the list objects something still refers to
Live(h) ==
    {ClassLists[n] : n \in HistoryNames} \cup
    UNION {{h.attrs[x].dict[n] : n \in DOMAIN h.attrs[x].dict} : x \in Instances}

\* []: a list object that is none of the live ones
NewList(h) ==
    CHOOSE id \in ObjIds \ Live(h) : \A other \in ObjIds \ Live(h) : id <= other

\* self.name = []; a list nothing refers to any more is released
setattr_new_list(h, self, name) ==
    LET id == NewList(h)
        bound == [h EXCEPT !.lists[id] = <<>>,
                           !.attrs[self].dict =
                               [n \in DOMAIN @ \cup {name} |->
                                   IF n = name THEN id ELSE @[n]]]
    IN  [bound EXCEPT !.lists =
            [k \in ObjIds |-> IF k \in Live(bound) THEN @[k] ELSE <<>>]]

\* self.name.append(v)
list_append(h, self, name, v) ==
    [h EXCEPT !.lists[getattr(h, self, name)] = Append(@, v)]

\* a reset() that empties the lists self.x refers to instead of binding new ones
BaseSwarmOptimizer_reset_in_place(h, self) ==
    [h EXCEPT !.lists =
        [k \in ObjIds |->
            IF \E n \in HistoryNames : getattr(h, self, n) = k THEN <<>> ELSE @[k]]]

RECURSIVE reset_from(_, _, _)
reset_from(h, self, k) ==
    IF k > Len(HistoryOrder) THEN h
    ELSE reset_from(setattr_new_list(h, self, HistoryOrder[k]), self, k + 1)

\* reset() on the objects: self.cost_history = [] ... self.velocity_history = []
\* (the swarm _init_swarm() then makes holds no history list)
BaseSwarmOptimizer_reset(h, self) ==
    reset_from(h, self, 1)

RECURSIVE populate_from(_, _, _, _)
populate_from(h, self, hist, k) ==
    IF k > Len(HistoryOrder) THEN h
    ELSE populate_from(
             list_append(h, self, HistoryOrder[k], hist[HistoryField[HistoryOrder[k]]]),
             self, hist, k + 1)

\* _populate_history(hist) on the objects: self.cost_history.append(hist.best_cost) ...
BaseSwarmOptimizer_populate_history(h, self, hist) ==
    populate_from(h, self, hist, 1)

\* __init__ with valid arguments, on the objects: the configuration attributes
\* are no lists; reset() runs last
BaseSwarmOptimizer_init(h, self) ==
    LET r == BaseSwarmOptimizer_reset(h, self)
    IN  [r EXCEPT !.attrs[self].constructed = TRUE]

\* the references to list objects, in a fixed order: the class attributes, then
\* the attributes of each instance
DictRefs(d) ==
    LET names == SelectSeq(HistoryOrder, LAMBDA n : n \in DOMAIN d)
    IN  [k \in 1 .. Len(names) |-> d[names[k]]]

RECURSIVE InstanceRefs(_, _)
InstanceRefs(h, k) ==
    IF k > Len(InstanceOrder) THEN <<>>
    ELSE DictRefs(h.attrs[InstanceOrder[k]].dict) \o InstanceRefs(h, k + 1)

Refs(h) ==
    [k \in 1 .. Len(HistoryOrder) |-> ClassLists[HistoryOrder[k]]] \o InstanceRefs(h, 1)

\* the place of a list object among the distinct objects referred to
Rank(refs, id) ==
    LET first == CHOOSE k \in 1 .. Len(refs) :
                     refs[k] = id /\ \A j \in 1 .. (k - 1) : refs[j] # id
    IN  Cardinality({refs[j] : j \in 1 .. first})

\* Only whether two references are to the same list object can be observed, not
\* which identity an object has: the objects are renamed in the order of the
\* references to them, which keeps every sharing of a list object
Normalise(h) ==
    LET refs == Refs(h)
    IN  [lists |-> [k \in ObjIds |->
                      IF \E id \in Live(h) : Rank(refs, id) = k
                      THEN h.lists[CHOOSE id \in Live(h) : Rank(refs, id) = k]
                      ELSE <<>>],
         attrs |-> [x \in Instances |->
                      [h.attrs[x] EXCEPT !.dict =
                          [n \in DOMAIN @ |-> Rank(refs, @[n])]]]]

\* the interpreter's objects now
Objects == [lists |-> lists, attrs |-> attrs]

\* what self.name reads as, for each of the five names
Histories(h, self) ==
    [n \in HistoryNames |-> h.lists[getattr(h, self, n)]]

HistInit ==
    /\ lists = [id \in ObjIds |-> <<>>]
    /\ attrs = [x \in Instances |-> [constructed |-> FALSE, dict |-> EmptyDict]]
    /\ pc = "idle" /\ pre = NoCall /\ args = NoCall /\ ret = NoCall
    /\ swarm = Idle /\ bh_calls = 0 /\ attained = Idle /\ iter = 0
    /\ ev = Idle /\ opt = Idle

\* A = Optimizer(...) or B = Optimizer(...)
HistConstruct ==
    \E x \in Instances :
        /\ ~attrs[x].constructed
        /\ LET h == Normalise(BaseSwarmOptimizer_init(Objects, x))
           IN  lists' = h.lists /\ attrs' = h.attrs
        /\ pre' = Objects
        /\ args' = [method |-> "__init__", self |-> x, hist |-> None]
        /\ UNCHANGED <<pc, swarm, ret, bh_calls, attained, iter, ev, opt>>

\* a call of _populate_history(hist) on a constructed instance
HistPopulate ==
    \E x \in Instances, hist \in HistChoices :
        /\ attrs[x].constructed
        /\ \A n \in HistoryNames : Len(lists[getattr(Objects, x, n)]) < MaxRecords
        /\ LET h == Normalise(BaseSwarmOptimizer_populate_history(Objects, x, hist))
           IN  lists' = h.lists /\ attrs' = h.attrs
        /\ pre' = Objects
        /\ args' = [method |-> "_populate_history", self |-> x, hist |-> hist]
        /\ UNCHANGED <<pc, swarm, ret, bh_calls, attained, iter, ev, opt>>

\* a call of reset() on a constructed instance
HistReset ==
    \E x \in Instances :
        /\ attrs[x].constructed
        /\ LET h == Normalise(BaseSwarmOptimizer_reset(Objects, x))
           IN  lists' = h.lists /\ attrs' = h.attrs
        /\ pre' = Objects
        /\ args' = [method |-> "reset", self |-> x, hist |-> None]
        /\ UNCHANGED <<pc, swarm, ret, bh_calls, attained, iter, ev, opt>>

HistNext ==
    \/ HistConstruct
    \/ HistPopulate
    \/ HistReset

SpecHist == HistInit /\ [][HistNext]_vars

----------------------------------------------------------------------------
(* Properties of the operators, under SpecSwarm *)

\* C1: compute_pbest returns, per particle, the smaller of pbest_cost and
\* current_cost, with the current position where current_cost is strictly smaller
\* and the prior personal-best position otherwise (so also on a tie).
C1_PbestIsMin ==
    pc = "assign_pbest" =>
        \A i \in Particles :
            /\ ret[2][i] = Min({pre.pbest_cost[i], pre.current_cost[i]})
            /\ ret[1][i] = IF pre.current_cost[i] < pre.pbest_cost[i]
                           THEN pre.position[i]
                           ELSE pre.pbest_pos[i]

\* compute_pbest has returned for a swarm with a tie at one particle (whose
\* position differs from its personal best) and a strict improvement at another
C1_Witness ==
    /\ pc = "assign_pbest"
    /\ \E i \in Particles : /\ pre.current_cost[i] = pre.pbest_cost[i]
                            /\ pre.position[i] # pre.pbest_pos[i]
                            /\ ret[1][i] = pre.pbest_pos[i]
    /\ \E j \in Particles : /\ pre.current_cost[j] < pre.pbest_cost[j]
                            /\ pre.position[j] # pre.pbest_pos[j]
                            /\ ret[1][j] = pre.position[j]

C2_RunningMin ==
    pc \in {"gbest", "velocity"} =>
        \A i \in Particles :
            /\ swarm.pbest_cost[i] = attained[i].cost
            /\ swarm.pbest_pos[i] = attained[i].pos

C2_NeverIncreases ==
    \A i \in Particles : swarm'.pbest_cost[i] <= swarm.pbest_cost[i]

\* C2: after every personal-best update of the loop, pbest_cost[i] is the least
\* cost particle i was evaluated at so far and pbest_pos[i] is the position where
\* that cost was first attained (so one at which it was attained), and no step
\* increases pbest_cost[i].
C2_PbestIsRunningMin == [](C2_RunningMin) /\ [][C2_NeverIncreases]_vars

\* after some iterations: one particle improved on its seed at a later position,
\* another keeps a personal best that beats its current position
C2_Witness ==
    /\ pc = "velocity"
    /\ \E i \in Particles : /\ swarm.pbest_cost[i] < swarm.current_cost[i]
                            /\ swarm.pbest_pos[i] # swarm.position[i]
    /\ \E j \in Particles : /\ swarm.pbest_cost[j] = 0
                            /\ swarm.current_cost[j] = 0
                            /\ swarm.pbest_pos[j] # swarm.position[j]

\* C4: compute_position returns position + velocity when bounds is None, without
\* invoking the boundary handler, and otherwise the handler's result on
\* position + velocity and the bounds, invoking the handler exactly once.
C4_PositionUpdate ==
    pc = "assign_position" =>
        LET tentative == [i \in Particles |-> [d \in Dims |->
                             pre.position[i][d] + pre.velocity[i][d]]]
        IN  IF args.bounds = None
            THEN ret = tentative /\ bh_calls = 0
            ELSE /\ ret = enforce(args.bh.strategy, tentative, args.bounds)
                 /\ bh_calls = 1

\* compute_position has returned with bounds supplied, and the handler corrected
\* a coordinate of the tentative position
C4_Witness ==
    /\ pc = "assign_position"
    /\ args.bounds # None
    /\ bh_calls = 1
    /\ \E i \in Particles, d \in Dims : ret[i][d] # pre.position[i][d] + pre.velocity[i][d]

\* C10: when compute_pbest or compute_position has returned and the caller has
\* not yet assigned the result, every field of the swarm equals its value before
\* the call, also when the handler corrected the tentative position in place.
C10_SwarmNotMutated ==
    pc \in {"assign_pbest", "assign_position"} => swarm = pre

\* compute_position has returned after an in-place handler changed the tentative
\* position it was handed
C10_Witness ==
    /\ pc = "assign_position"
    /\ args.bounds # None /\ args.bh.inplace
    /\ \E i \in Particles, d \in Dims : ret[i][d] # pre.position[i][d] + pre.velocity[i][d]
    /\ ret # swarm.position

----------------------------------------------------------------------------
(* Properties of the objective evaluator, under SpecEval *)

\* the sequences of a sequence, joined first to last
RECURSIVE InOrder(_)
InOrder(seqs) == IF seqs = <<>> THEN <<>> ELSE Head(seqs) \o InOrder(Tail(seqs))

\* C3: with a pool of P workers compute_objective_function returns what it returns
\* with pool=None: a vector of length N whose k-th cost is the objective's cost of
\* row k, whatever the order in which the workers finish.
C3_ParallelEqualsSequential ==
    (ev.phase = "returned" /\ ev.pool # None) =>
        /\ ev.out = objective_func(ev.objective, ev.position)
        /\ ev.out.status = "returned" =>
              /\ Len(ev.out.value) = Len(ev.position)
              /\ \A k \in 1 .. Len(ev.position) : ev.out.value[k] = sphere(ev.position[k])

\* a parallel call has returned for 4 particles of pairwise different cost split
\* over 3 workers
C3_Witness ==
    /\ ev.phase = "returned" /\ ev.pool # None /\ ev.pool.processes = 3
    /\ ev.out.status = "returned"
    /\ Len(ev.position) = 4
    /\ \A j, k \in 1 .. 4 : j # k => ev.out.value[j] # ev.out.value[k]

\* C9 as stated: P contiguous blocks covering the rows in order, all of the size
\* of the first except that the last may be smaller, results joined in block order.
C9_Original ==
    (ev.phase \in {"map", "returned"} /\ ev.pool # None) =>
        /\ Len(ev.blocks) = ev.pool.processes
        /\ InOrder(ev.blocks) = ev.position
        /\ \A k \in 1 .. Len(ev.blocks) - 1 : Len(ev.blocks[k]) = Len(ev.blocks[1])
        /\ Len(ev.blocks[Len(ev.blocks)]) <= Len(ev.blocks[1])
        /\ (ev.phase = "returned" /\ ev.out.status = "returned") =>
              ev.out.value = InOrder([k \in DOMAIN ev.blocks |->
                                        objective_func(ev.objective, ev.blocks[k]).value])

\* C9 (amended): the position matrix is split into exactly P contiguous blocks
\* covering the rows in order; the first N mod P blocks have N div P + 1 rows and
\* the others N div P rows; the result vectors are joined in block order.
C9_BalancedBlocks ==
    (ev.phase \in {"map", "returned"} /\ ev.pool # None) =>
        /\ Len(ev.blocks) = ev.pool.processes
        /\ InOrder(ev.blocks) = ev.position
        /\ \A k \in 1 .. Len(ev.blocks) :
              Len(ev.blocks[k]) = IF k <= Len(ev.position) % ev.pool.processes
                                  THEN Len(ev.position) \div ev.pool.processes + 1
                                  ELSE Len(ev.position) \div ev.pool.processes
        /\ (ev.phase = "returned" /\ ev.out.status = "returned") =>
              ev.out.value = InOrder([k \in DOMAIN ev.blocks |->
                                        objective_func(ev.objective, ev.blocks[k]).value])

\* 4 pairwise different rows were split over 3 workers into blocks of 2, 1 and 1
\* rows, and the call has returned
C9_Witness ==
    /\ ev.phase = "returned" /\ ev.pool # None /\ ev.pool.processes = 3
    /\ ev.out.status = "returned"
    /\ Len(ev.position) = 4
    /\ \A j, k \in 1 .. 4 : j # k => ev.position[j] # ev.position[k]
    /\ Len(ev.blocks[1]) = 2 /\ Len(ev.blocks[2]) = 1 /\ Len(ev.blocks[3]) = 1

----------------------------------------------------------------------------
(* Properties of the optimizer, under SpecOpt *)

\* C5: right after reset() the five history lists are empty, the swarm is the
\* uninitialised-cost swarm _init_swarm makes, of the shape (N, D), and
\* n_particles, dimensions, swarm_size, options, velocity_clamp, init_pos, ftol
\* and ftol_iter are what they were before the reset.
C5_ResetClears ==
    opt.last = "reset" =>
        /\ \A h \in HistoryNames : opt[h] = <<>>
        /\ DOMAIN swarm.position = 1 .. opt.n_particles
        /\ \A i \in DOMAIN swarm.position :
              /\ DOMAIN swarm.position[i] = 1 .. opt.dimensions
              /\ swarm.pbest_pos[i] = swarm.position[i]
              /\ swarm.pbest_cost[i] = Inf
              /\ swarm.current_cost[i] = Inf
        /\ swarm.best_cost = Inf
        /\ [o \in ConfigNames |-> opt[o]] = pre.config

\* reset() was called after a run that had appended two or more records
C5_Witness ==
    /\ opt.last = "reset"
    /\ pre.records >= 2
    /\ opt.cost_history = <<>>

\* C6: a construction with an ftol_iter that is not an integer or not positive
\* raises before reset() and _init_swarm() run, leaving no swarm and no ftol_iter;
\* one with an integer ftol_iter > 0 succeeds and stores that value.
C6_FtolIterChecked ==
    opt.status # "new" =>
        IF args.ftol_iter.type = "int" /\ args.ftol_iter.half > 0
        THEN opt.status = "constructed" /\ opt.ftol_iter = args.ftol_iter
        ELSE /\ opt.status = "failed"
             /\ ret = Raised
             /\ swarm = NoSwarm
             /\ opt.ftol_iter = Unset
             /\ opt.run = "idle" /\ opt.last = "__init__"

\* a construction with a positive ftol_iter that is a float has raised
C6_Witness ==
    /\ opt.status = "failed"
    /\ args.ftol_iter.type = "float" /\ args.ftol_iter.half > 0
    /\ swarm = NoSwarm

C8_ObjectiveErrorAborts ==
    /\ (opt.run = "running" /\ pc \in {"pbest", "gbest", "history"}) =>
          ~Raises(args.objective, swarm.position)
    /\ opt.run = "aborted" =>
          /\ Raises(args.objective, swarm.position)
          /\ ret = Raised
          /\ pc = "idle"
          /\ \A h \in HistoryNames : Len(opt[h]) = iter

\* the objective raised in a later iteration of a run with a pool, after at
\* least one record was appended
C8_Witness ==
    /\ opt.run = "aborted"
    /\ args.pool # None
    /\ iter >= 1
    /\ Len(opt.cost_history) >= 1

----------------------------------------------------------------------------
(* Properties of the history lists as objects, under SpecHist *)

\* C11: after any call of __init__, _populate_history or reset() on one instance,
\* each other constructed instance reads its five history lists as they were
\* before the call; and after _populate_history(hist) on an instance, each of its
\* five lists is the list it was before the call with the one matching field of
\* hist appended at the end.
C11_HistoriesPerInstance ==
    pre # NoCall =>
        /\ \A other \in Instances \ {args.self} :
              pre.attrs[other].constructed =>
                  Histories(Objects, other) = Histories(pre, other)
        /\ args.method = "_populate_history" =>
              \A n \in HistoryNames :
                  Histories(Objects, args.self)[n] =
                      Append(Histories(pre, args.self)[n], args.hist[HistoryField[n]])

\* _populate_history was just called on A for the second time in a row, while B,
\* constructed too, holds a record of its own
C11_Witness ==
    /\ pre # NoCall
    /\ args.method = "_populate_history" /\ args.self = "A"
    /\ attrs["B"].constructed
    /\ Len(Histories(Objects, "A").cost_history) >= 2
    /\ Len(Histories(Objects, "B").pos_history) = 1
    /\ Histories(Objects, "B").cost_history[1] # Histories(Objects, "A").cost_history[1]

====
